---- MODULE Spec2Model ----
(***************************************************************************)
(* Model of validation-notebooks/01 - Data Validation with Voluptuous.     *)
(* The notebook loads a table of sales, then runs three schema experiments *)
(* over it (sale_amount range, timestamp format, timestamp not in the      *)
(* future).  Each experiment is a loop over the rows that calls the schema *)
(* on the row, and on MultipleInvalid logs one warning and counts it.      *)
(*                                                                         *)
(* Amounts are modelled in cents (2.50 = 250, 1450.99 = 145099).  A        *)
(* timestamp string is a sequence of tokens, the format a sequence of      *)
(* directives and literals, and a datetime is a number of hours.           *)
(***************************************************************************)
EXTENDS Integers, Sequences, FiniteSets, TLC

\* ---------------------------------------------------------------- bounds
MaxRows == 2
MaxClock == 2

\* ------------------------------------------------------------- constants
RangeMin == 250
RangeMax == 145099

\* ----------------------------------------------------------------- values
\* A scalar of the table: t is its Python type, n its number, s its tokens.
Float(c) == [t |-> "float", n |-> c, s |-> <<>>]
NaN == [t |-> "nan", n |-> 0, s |-> <<>>]
Str(toks) == [t |-> "str", n |-> 0, s |-> toks]
DateTime(h) == [t |-> "datetime", n |-> h, s |-> <<>>]
None == [t |-> "None", n |-> 0, s |-> <<>>]

\* Values the sale_amount column is loaded with: floats around both bounds,
\* an empty cell (NaN, a float) and a non-numeric cell.
AmountValues ==
    {Float(249), Float(250), Float(145099), Float(145100), NaN, Str(<<"a">>)}

\* Values the timestamp column is loaded with: two well-formed strings, a
\* string with an hour out of range, and an empty cell (NaN, not a string).
TimestampValues ==
    {Str(<<"0", "T", "1">>), Str(<<"1", "T", "0">>), Str(<<"0", "T", "7">>), NaN}

ColumnSets == {{"sale_amount", "timestamp"}, {"sale_amount"}, {"timestamp"}}

Clock == 0..MaxClock

\* ------------------------------------------------------------- exceptions
Ok(v) == [exc |-> "none", msg |-> "", val |-> v, reads |-> FALSE]
Raise(e, m) == [exc |-> e, msg |-> m, val |-> None, reads |-> FALSE]

\* ---------------------------------------------------------------- strptime
fmt == <<"%d", "T", "%H">>

DigitVal ==
    ("0" :> 0) @@ ("1" :> 1) @@ ("2" :> 2) @@ ("3" :> 3) @@ ("7" :> 7)

HoursInDay == {0, 1}
DaysInMonth == {0, 1}

DirectiveRange(d) == IF d = "%H" THEN HoursInDay ELSE DaysInMonth

TokenMatches(tok, f) ==
    IF f \in {"%d", "%H"}
    THEN tok \in DOMAIN DigitVal /\ DigitVal[tok] \in DirectiveRange(f)
    ELSE tok = f

Strptime(v, f) ==
    IF v.t # "str" THEN Raise("TypeError", "strptime() argument 1 must be str")
    ELSE IF Len(v.s) # Len(f) \/ \E i \in 1..Len(f) : ~TokenMatches(v.s[i], f[i])
    THEN Raise("ValueError", "time data does not match format")
    ELSE Ok(DateTime(DigitVal[v.s[1]] * Cardinality(HoursInDay) + DigitVal[v.s[3]]))

\* ------------------------------------------------------------- validators
\* float, as a schema: isinstance(v, float); NaN is a float.
FloatType(v) ==
    IF v.t \in {"float", "nan"} THEN Ok(v) ELSE Raise("Invalid", "expected float")

\* Python's v >= m and v <= m on a float; every comparison with NaN is false.
Ge(v, m) == v.t = "float" /\ v.n >= m
Le(v, m) == v.t = "float" /\ v.n <= m

\* Range with both bounds excluded, as min_included=False, max_included=False.
RangeExclusive(v) ==
    IF ~(v.t = "float" /\ v.n > RangeMin)
    THEN Raise("Invalid", "value must be at least 2.5")
    ELSE IF ~(v.t = "float" /\ v.n < RangeMax)
    THEN Raise("Invalid", "value must be at most 1450.99")
    ELSE Ok(v)

\* Range(min=2.50, max=1450.99): both bounds included.
Range(v) ==
    IF ~Ge(v, RangeMin) THEN Raise("Invalid", "value must be at least 2.5")
    ELSE IF ~Le(v, RangeMax) THEN Raise("Invalid", "value must be at most 1450.99")
    ELSE Ok(v)

\* ValidDate(), first version: lambda v: datetime.strptime(v, fmt)
ValidDateFormat(v) == Strptime(v, fmt)

\* validation_func asserting strptime(v, fmt) < datetime.now().
ValidDateFutureStrict(v, now) ==
    LET p == Strptime(v, fmt) IN
    IF p.exc # "none" THEN p
    ELSE IF p.val.n < now
    THEN [Ok(None) EXCEPT !.reads = TRUE]
    ELSE [Raise("Invalid", "date is in the future!") EXCEPT !.reads = TRUE]

\* validation_func asserting strptime(v, fmt) >= datetime.now().
ValidDateFutureReversed(v, now) ==
    LET p == Strptime(v, fmt) IN
    IF p.exc # "none" THEN p
    ELSE IF p.val.n >= now
    THEN [Ok(None) EXCEPT !.reads = TRUE]
    ELSE [Raise("Invalid", "date is in the future!") EXCEPT !.reads = TRUE]

\* validation_func with except (AssertionError, ValueError): a string that
\* does not parse is reported as a date in the future.
ValidDateFutureCatchAll(v, now) ==
    LET p == Strptime(v, fmt) IN
    IF p.exc = "ValueError" THEN Raise("Invalid", "date is in the future!")
    ELSE IF p.exc # "none" THEN p
    ELSE IF p.val.n <= now
    THEN [Ok(None) EXCEPT !.reads = TRUE]
    ELSE [Raise("Invalid", "date is in the future!") EXCEPT !.reads = TRUE]

\* validation_func that checks the date only when the string parses and
\* accepts the value otherwise.
ValidDateFutureLenient(v, now) ==
    LET p == Strptime(v, fmt) IN
    IF p.exc = "ValueError" THEN Ok(None)
    ELSE IF p.exc # "none" THEN p
    ELSE IF p.val.n <= now
    THEN [Ok(None) EXCEPT !.reads = TRUE]
    ELSE [Raise("Invalid", "date is in the future!") EXCEPT !.reads = TRUE]

\* ValidDate(), second version: validation_func.  strptime is evaluated
\* before datetime.now(), so the clock is read only when the parse succeeds.
ValidDateFuture(v, now) ==
    LET p == Strptime(v, fmt) IN
    IF p.exc # "none" THEN p
    ELSE IF p.val.n <= now
    THEN [Ok(None) EXCEPT !.reads = TRUE]
    ELSE [Raise("Invalid", "date is in the future!") EXCEPT !.reads = TRUE]

\* A callable used as a schema: ValueError becomes Invalid('not a valid
\* value'), Invalid passes through, any other exception propagates.
ValidateCallable(r) ==
    IF r.exc = "ValueError" THEN Raise("Invalid", "not a valid value") ELSE r

\* All(float, Range(...)): the validators in order, each fed the previous
\* one's output, stopping at the first that raises.
AllFloatRange(v) ==
    LET a == FloatType(v) IN IF a.exc # "none" THEN a ELSE Range(a.val)

\* ---------------------------------------------------------------- schemas
Schemas == {"range", "format", "future"}

\* The key each schema requires, which is also the field its loop logs.
Field(s) == IF s = "range" THEN "sale_amount" ELSE "timestamp"

\* The validator each schema pairs with its required key.
Rule(s, v, now) ==
    IF s = "range" THEN AllFloatRange(v)
    ELSE IF s = "format" THEN ValidateCallable(ValidDateFormat(v))
    ELSE ValidateCallable(ValidDateFuture(v, now))

\* extra=ALLOW_EXTRA: keys of the row the schema does not name are accepted.
AllowExtra == TRUE

\* schema(sale): MultipleInvalid when the required key is absent, when a key
\* is extra and extras are not allowed, or when the rule raises Invalid; an
\* exception of another type leaves the call as it is.
SchemaCall(s, sale, now) ==
    IF Field(s) \notin DOMAIN sale
    THEN Raise("MultipleInvalid", "required key not provided")
    ELSE LET r == Rule(s, sale[Field(s)], now) IN
         IF r.exc = "Invalid" THEN [r EXCEPT !.exc = "MultipleInvalid"]
         ELSE IF r.exc # "none" THEN r
         ELSE IF ~AllowExtra /\ DOMAIN sale # {Field(s)}
         THEN Raise("MultipleInvalid", "extra keys not allowed")
         ELSE r

\* ------------------------------------------------------------------ state
VARIABLES
    sales,        \* the loaded frame: a sequence of rows, column -> value
    pc,           \* "idle", "loop", "done" (loop over) or "crashed"
    schema,       \* the schema the name `schema` is bound to
    idx,          \* rows of the current loop already iterated
    error_count,  \* the counter of the current loop
    log,          \* warning lines the current loop has emitted
    clockReads,   \* datetime.now() calls of the current loop: row and value
    raised,       \* the exception that left the loop, "none" if none did
    final         \* the count each schema's last finished run displayed

vars == <<sales, pc, schema, idx, error_count, log, clockReads, raised, final>>

\* One row of the frame: pd.read_csv gives every row the same columns.
Row(cols, a, ts) == [c \in cols |-> IF c = "sale_amount" THEN a ELSE ts]

\* The rows a frame with these columns is loaded with: every amount beside
\* an ordinary timestamp, and every timestamp beside an ordinary amount.
Rows(cols) ==
    {Row(cols, a, Str(<<"0", "T", "1">>)) : a \in AmountValues}
        \cup {Row(cols, Float(RangeMin), ts) : ts \in TimestampValues}

Tables == UNION {[1..n -> Rows(cols)] : n \in 0..MaxRows, cols \in ColumnSets}

\* sales.T.to_dict().items(): one (s_id, sale) per row, in index order; the
\* index of a frame read from a file is 0, 1, 2, ...
Items(tbl) == [i \in 1..Len(tbl) |-> <<i - 1, tbl[i]>>]

\* The frame after an iteration that stores the validated row back
\* (sales.loc[s_id] = schema(sale)).
FrameWriteBack(tbl, s_id, out) == [tbl EXCEPT ![s_id + 1] = out]

\* The frame after one iteration: sale is a copy made by to_dict and the
\* value schema(sale) returns is dropped, so nothing is written back.
FrameAfter(tbl, s_id, out) == tbl

Init ==
    /\ sales \in Tables
    /\ pc = "idle"
    /\ schema = "none"
    /\ idx = 0
    /\ error_count = 0
    /\ log = <<>>
    /\ clockReads = <<>>
    /\ raised = "none"
    /\ final = <<>>

\* The same cells with the loop cell's first line, error_count = 0, left
\* out: the counter carries over from the run before.
StartRunNoReset(s) ==
    /\ pc = "idle"
    /\ schema' = s
    /\ idx' = 0
    /\ log' = <<>>
    /\ clockReads' = <<>>
    /\ pc' = IF Len(sales) = 0 THEN "done" ELSE "loop"
    /\ UNCHANGED <<sales, error_count, raised, final>>

\* The cells that bind `schema` (and ValidDate before it) followed by the
\* first line of the loop cell, error_count = 0.
StartRun(s) ==
    /\ pc = "idle"
    /\ schema' = s
    /\ error_count' = 0
    /\ idx' = 0
    /\ log' = <<>>
    /\ clockReads' = <<>>
    /\ pc' = IF Len(sales) = 0 THEN "done" ELSE "loop"
    /\ UNCHANGED <<sales, raised, final>>

\* One iteration of the for loop; now is what datetime.now() returns if the
\* rule calls it.
CheckRow(now) ==
    /\ pc = "loop"
    /\ LET item == Items(sales)[idx + 1]
           s_id == item[1]
           sale == item[2]
           r == SchemaCall(schema, sale, now)
           out == IF r.exc = "none" THEN [sale EXCEPT ![Field(schema)] = r.val]
                  ELSE sale
           next == IF idx + 1 = Len(sales) THEN "done" ELSE "loop"
       IN /\ clockReads' = IF r.reads
                           THEN Append(clockReads, [row |-> s_id, now |-> now])
                           ELSE clockReads
          /\ sales' = FrameAfter(sales, s_id, out)
          /\ IF r.exc = "none"
             THEN /\ idx' = idx + 1
                  /\ pc' = next
                  /\ UNCHANGED <<error_count, log, raised>>
             ELSE IF r.exc = "MultipleInvalid" /\ Field(schema) \in DOMAIN sale
             THEN /\ log' = Append(log, [s_id |-> s_id,
                                         value |-> sale[Field(schema)],
                                         msg |-> r.msg])
                  /\ error_count' = error_count + 1
                  /\ idx' = idx + 1
                  /\ pc' = next
                  /\ UNCHANGED raised
             ELSE /\ raised' = IF r.exc = "MultipleInvalid" THEN "KeyError"
                               ELSE r.exc
                  /\ pc' = "crashed"
                  /\ UNCHANGED <<idx, error_count, log>>
    /\ UNCHANGED <<schema, final>>

\* The cell after the loop, which displays error_count.
Report ==
    /\ pc = "done"
    /\ final' = (schema :> error_count) @@ final
    /\ pc' = "idle"
    /\ UNCHANGED <<sales, schema, idx, error_count, log, clockReads, raised>>

Next ==
    \/ \E s \in Schemas : StartRun(s)
    \/ \E now \in Clock : CheckRow(now)
    \/ Report

Spec == Init /\ [][Next]_vars

\* ----------------------------------------------------- reading the state
Last(q) == q[Len(q)]

\* Positions of the rows the current loop has called the schema on: the
\* rows iterated, and the row an exception stopped it at.
Checked == 1..(IF pc = "crashed" THEN idx + 1 ELSE idx)

InRun == pc \in {"loop", "done", "crashed"}

\* The value datetime.now() returned while row i was checked (0 when the
\* rule did not call it: the outcome does not depend on it then).
ReadAt(i) ==
    clockReads[CHOOSE k \in 1..Len(clockReads) : clockReads[k].row = i - 1].now

NowOf(i) ==
    IF \E k \in 1..Len(clockReads) : clockReads[k].row = i - 1 THEN ReadAt(i) ELSE 0

\* Row i fails the schema of the current run.
FailsRun(i) == SchemaCall(schema, sales[i], NowOf(i)).exc # "none"

LinesOf(i) == {k \in 1..Len(log) : log[k].s_id = i - 1}

Parses(v) == Strptime(v, fmt).exc = "none"
Parsed(v) == Strptime(v, fmt).val.n

\* C1: when a run ends, its counter, started from zero for that run, is the
\* number of rows of the table that fail the run's schema.
C1_FinalCountIsFailingRows ==
    pc = "done" =>
        error_count = Cardinality({i \in 1..Len(sales) : FailsRun(i)})

C1_Witness ==
    /\ pc = "done"
    /\ schema = "range"
    /\ "future" \in DOMAIN final
    /\ final["future"] = 2
    /\ Len(sales) = 2
    /\ error_count = 1

\* C4: in a range run, a checked row whose sale_amount is a float within
\* [2.50, 1450.99], bounds included, gets no warning, and one whose float is
\* below 2.50 or above 1450.99 gets one, about the range.
C4_RangeInclusive ==
    (InRun /\ schema = "range") =>
        \A i \in Checked :
            ("sale_amount" \in DOMAIN sales[i] /\ sales[i]["sale_amount"].t = "float") =>
                LET c == sales[i]["sale_amount"].n IN
                /\ (RangeMin <= c /\ c <= RangeMax) => LinesOf(i) = {}
                /\ c < RangeMin =>
                     \E k \in LinesOf(i) : log[k].msg = "value must be at least 2.5"
                /\ c > RangeMax =>
                     \E k \in LinesOf(i) : log[k].msg = "value must be at most 1450.99"

C4_Witness ==
    /\ pc = "done"
    /\ schema = "range"
    /\ Len(sales) = 2
    /\ "sale_amount" \in DOMAIN sales[1]
    /\ sales[1]["sale_amount"] = Float(RangeMin)
    /\ sales[2]["sale_amount"] = Float(RangeMax + 1)
    /\ error_count = 1

\* The outcome of the schema call in a step that checks the current row,
\* read back from the clock value the step recorded, if it recorded one.
StepSale == sales[idx + 1]
StepNow == IF Len(clockReads') > Len(clockReads) THEN Last(clockReads').now ELSE 0
StepFails == SchemaCall(schema, StepSale, StepNow).exc # "none"

\* The warning line the loop's handler writes for the current row.
StepLine(l) ==
    /\ l.s_id = idx
    /\ Field(schema) \in DOMAIN StepSale
    /\ l.value = StepSale[Field(schema)]

\* The four kinds of row error, for the current row, schema and step.
StepMissingField == Field(schema) \notin DOMAIN StepSale
StepValue == StepSale[Field(schema)]
StepTypeOrFormat ==
    /\ ~StepMissingField
    /\ IF schema = "range" THEN StepValue.t \notin {"float", "nan"}
       ELSE ~Parses(StepValue)
StepOutOfRange ==
    /\ ~StepMissingField
    /\ schema = "range"
    /\ StepValue.t = "float"
    /\ (StepValue.n < RangeMin \/ StepValue.n > RangeMax)
StepInFuture ==
    /\ ~StepMissingField
    /\ schema = "future"
    /\ Parses(StepValue)
    /\ Len(clockReads') > Len(clockReads)
    /\ Parsed(StepValue) > StepNow

\* C2: a row error of any of the four kinds (field missing, wrong type or
\* format, out of range, in the future) is caught in the loop: the step that
\* checks the row logs one warning, adds one to the counter, and no
\* exception leaves the loop.
C2_EveryKindCaughtLoggedCounted ==
    [][(pc = "loop" /\ (StepMissingField \/ StepTypeOrFormat
                          \/ StepOutOfRange \/ StepInFuture))
         => /\ Len(log') = Len(log) + 1
            /\ error_count' = error_count + 1
            /\ raised' = "none"
            /\ pc' # "crashed"]_vars

\* C3: a failing row never stops a run: a run is over only when every row of
\* the table has been visited, and it is over at the end of the loop.
C3_RunVisitsEveryRow ==
    pc \in {"done", "crashed"} => (pc = "done" /\ idx = Len(sales))

\* C5: in a future-date run, a checked row whose timestamp parses gets the
\* future-date warning when the parsed time is strictly after the time read
\* for its check, and no warning when it is at or before that time.
C5_FutureIffStrictlyAfterNow ==
    (InRun /\ schema = "future") =>
        \A i \in Checked :
            ("timestamp" \in DOMAIN sales[i] /\ Parses(sales[i]["timestamp"])) =>
                /\ \E k \in 1..Len(clockReads) : clockReads[k].row = i - 1
                /\ IF Parsed(sales[i]["timestamp"]) > ReadAt(i)
                   THEN /\ LinesOf(i) # {}
                        /\ \A k \in LinesOf(i) : log[k].msg = "date is in the future!"
                   ELSE LinesOf(i) = {}

C5_Witness ==
    /\ pc = "done"
    /\ schema = "future"
    /\ Len(sales) = 2
    /\ Len(clockReads) = 2
    /\ Parsed(sales[1]["timestamp"]) = clockReads[1].now
    /\ Parsed(sales[2]["timestamp"]) > clockReads[2].now
    /\ error_count = 1

\* C6: in a format-only run and in a future-date run, a checked row whose
\* timestamp is a string that does not parse under the format gets a
\* warning, and the warning carries the format error, never the future-date
\* message.
C6_UnparseableIsFormatError ==
    (InRun /\ schema \in {"format", "future"}) =>
        \A i \in Checked :
            ("timestamp" \in DOMAIN sales[i]
               /\ Strptime(sales[i]["timestamp"], fmt).exc = "ValueError") =>
                /\ LinesOf(i) # {}
                /\ \A k \in LinesOf(i) :
                       /\ log[k].msg = "not a valid value"
                       /\ log[k].msg # "date is in the future!"

C6_Witness ==
    /\ pc = "done"
    /\ schema = "future"
    /\ "format" \in DOMAIN final
    /\ final["format"] = 1
    /\ Len(sales) = 2
    /\ Strptime(sales[1]["timestamp"], fmt).exc = "ValueError"
    /\ Parses(sales[2]["timestamp"])
    /\ error_count = 2

\* C7: the warnings emitted so far are as many as the counter, which is at
\* most the rows checked so far; the check of a failing row emits exactly
\* one warning naming the row and the value of the validated field and adds
\* exactly 1 to the counter; the check of a passing row emits nothing and
\* leaves the counter as it is.
C7_OneWarningPerFailingRow ==
    [][/\ Len(log') = error_count'
       /\ error_count' <= idx'
       /\ (pc = "loop" /\ StepFails) =>
             /\ Len(log') = Len(log) + 1
             /\ SubSeq(log', 1, Len(log)) = log
             /\ StepLine(Last(log'))
             /\ error_count' = error_count + 1
       /\ (pc = "loop" /\ ~StepFails) =>
             /\ log' = log
             /\ error_count' = error_count]_vars

\* C8: validation never changes the data: no step of any run, whatever the
\* schema and whether the row passes or fails, changes the loaded table.
C8_TableNeverChanges == [][sales' = sales]_vars

C8_Witness ==
    /\ DOMAIN final = Schemas
    /\ final["format"] = 1
    /\ final["future"] = 2
    /\ pc = "done"
    /\ schema = "range"
    /\ error_count = 1
    /\ Len(sales) = 2

\* The clock did not go backwards between the reads of the current run.
ClockMonotone ==
    \A j, k \in 1..Len(clockReads) :
        j < k => clockReads[j].now <= clockReads[k].now

PassedRead(k) == LinesOf(clockReads[k].row + 1) = {}
ParsedRead(k) == Parsed(sales[clockReads[k].row + 1]["timestamp"])

\* C9: in a future-date run the clock is read per row check (once for each
\* checked row whose timestamp parses, a row at a time, never for another
\* schema), and if the clock did not go backwards during the run, then
\* whenever a row with parsed timestamp t passes, every row checked later
\* whose parsed timestamp is at or before t passes too.
C9_ClockPerRowAndPassesMonotone ==
    InRun =>
        /\ schema # "future" => clockReads = <<>>
        /\ \A j, k \in 1..Len(clockReads) :
               j < k => clockReads[j].row < clockReads[k].row
        /\ schema = "future" =>
               Len(clockReads) =
                   Cardinality({i \in Checked :
                       "timestamp" \in DOMAIN sales[i] /\ Parses(sales[i]["timestamp"])})
        /\ ClockMonotone =>
               \A j, k \in 1..Len(clockReads) :
                   (j < k /\ PassedRead(j) /\ ParsedRead(k) <= ParsedRead(j))
                       => PassedRead(k)

C9_Witness ==
    /\ pc = "done"
    /\ schema = "future"
    /\ Len(clockReads) = 2
    /\ clockReads[1].now < clockReads[2].now
    /\ ParsedRead(1) = clockReads[1].now
    /\ ParsedRead(2) <= ParsedRead(1)
    /\ PassedRead(1)
    /\ PassedRead(2)

\* C10: the future-date rule is at least as strict as the format-only rule:
\* a row that fails the format-only schema fails the future-date schema
\* whatever the time, so on the same table the future-date run's final
\* count is at least the format-only run's.
C10_FutureAtLeastAsStrict ==
    /\ \A i \in 1..Len(sales) :
           SchemaCall("format", sales[i], 0).exc # "none" =>
               \A now \in Clock : SchemaCall("future", sales[i], now).exc # "none"
    /\ {"format", "future"} \subseteq DOMAIN final =>
           final["future"] >= final["format"]

C10_Witness ==
    /\ {"format", "future"} \subseteq DOMAIN final
    /\ final["format"] = 1
    /\ final["future"] = 2
    /\ Len(sales) = 2

====
